---- MODULE Spec2Model ----
(***************************************************************************)
(* Best-first histogram tree grower of pygbm (pygbm/grower.py) together    *)
(* with the histogram split finder it drives (pygbm/splitting.py, known    *)
(* through its test contract tests/test_splitting.py and the design text). *)
(*                                                                         *)
(* Numbers: gradients and hessians are integers, so every sum is exact.    *)
(* A gain and a leaf weight are quotients; they are kept as a pair         *)
(* <<numerator, denominator>> with denominator > 0 and compared by cross   *)
(* multiplication, never rounded.                                          *)
(* Sample ids are 1..n_samples (numpy: 0..n_samples-1).                    *)
(***************************************************************************)
EXTENDS Integers, Sequences, FiniteSets, TLC

\* ---------------------------------------------------------------- bounds
MaxSamples == 4
NBins == 3

\* -------------------------------------------------- program constants
\* defaults of TreeGrower.__init__; hessians are integers here, so the
\* default threshold 1e-3 rejects exactly the sums below 1
l2_regularization == 0
shrinkage == 1
min_hessian_to_split == 1

MinGains == {0, 1}
None == <<>>

\* ------------------------------------------------------------ arithmetic
RECURSIVE SumTo(_, _, _)
\* sum of f[i] over the i in S with i <= n  (numpy: f[S].sum())
SumTo(f, S, n) ==
    IF n = 0 THEN 0
    ELSE (IF n \in S THEN f[n] ELSE 0) + SumTo(f, S, n - 1)

SumOver(f, S) == SumTo(f, S, Len(f))

\* numpy: f.sum() over a whole array
SeqSum(f) == SumTo(f, 1 .. Len(f), Len(f))

\* a/b < c/d, a/b > c/d for quotients <<a, b>>, <<c, d>> with b, d > 0
QLess(p, q) == p[1] * q[2] < q[1] * p[2]
QGreater(p, q) == p[1] * q[2] > q[1] * p[2]
QEqual(p, q) == p[1] * q[2] = q[1] * p[2]

\* F applied to the value of e: the value is computed once and then named,
\* as an assignment to a local does (TLC computes a LET definition again at
\* each use when it evaluates ENABLED)
Once(e, F(_)) == CHOOSE y \in {F(v) : v \in {e}} : TRUE

\* ------------------------------------------------- HistogramSplitter
\* the splitter object: the fields the grower and the split search read
HistogramSplitter(n_features, binned_features, n_bins, gradients, hessians) ==
    [n_features |-> n_features,
     binned_features |-> binned_features,
     n_bins |-> n_bins,
     all_gradients |-> gradients,
     all_hessians |-> hessians,
     constant_hessian |-> (Len(hessians) = 1),
     l2_regularization |-> l2_regularization,
     min_hessian_to_split |-> min_hessian_to_split]

\* one bin of one feature's histogram over the sample set S
HistogramBin(sp, f, S, b) ==
    LET inbin == {i \in S : sp.binned_features[i][f] = b}
        count == Cardinality(inbin)
    IN [count |-> count,
        sum_gradients |-> SumOver(sp.all_gradients, inbin),
        sum_hessians |-> IF sp.constant_hessian
                         THEN count * sp.all_hessians[1]
                         ELSE SumOver(sp.all_hessians, inbin)]

\* per-feature histogram built from scratch over the sample set S
build_histogram(sp, f, S) ==
    [b \in 0 .. (sp.n_bins - 1) |-> HistogramBin(sp, f, S, b)]

\* variant: the hessian sums of the parent kept as they are
subtract_histograms_keeps_hessians(parent, sibling) ==
    [b \in DOMAIN parent |->
        [count |-> parent[b].count - sibling[b].count,
         sum_gradients |-> parent[b].sum_gradients - sibling[b].sum_gradients,
         sum_hessians |-> parent[b].sum_hessians]]

\* complementary histogram: parent minus sibling, bin by bin, field by field
subtract_histograms(parent, sibling) ==
    [b \in DOMAIN parent |->
        [count |-> parent[b].count - sibling[b].count,
         sum_gradients |-> parent[b].sum_gradients - sibling[b].sum_gradients,
         sum_hessians |-> parent[b].sum_hessians - sibling[b].sum_hessians]]

SplitInfo(gain, f, b, gl, hl, gr, hr) ==
    [gain |-> gain, feature_idx |-> f, bin_idx |-> b,
     gradient_left |-> gl, hessian_left |-> hl,
     gradient_right |-> gr, hessian_right |-> hr]

\* no feasible threshold: the sentinel a search starts from
NoSplit == SplitInfo(<<-1, 1>>, 0, 0, 0, 0, 0, 0)

RECURSIVE PrefixSum(_, _, _)
\* sum of field fld of hist over bins 0..t
PrefixSum(hist, fld, t) ==
    IF t < 0 THEN 0 ELSE hist[t][fld] + PrefixSum(hist, fld, t - 1)

\* 0.5 * (gl^2/(hl+l2) + gr^2/(hr+l2) - g^2/(h+l2)) as one quotient
split_gain(sp, gl, hl, gr, hr, g, h) ==
    LET dl == hl + sp.l2_regularization
        dr == hr + sp.l2_regularization
        dp == h + sp.l2_regularization
    IN <<gl * gl * dr * dp + gr * gr * dl * dp - g * g * dl * dr,
         2 * dl * dr * dp>>

\* variant: the threshold bin itself goes right (left = bins below t)
Candidate_exclusive(sp, f, hist, t, g, h) ==
    Once(<<PrefixSum(hist, "sum_gradients", t - 1),
           PrefixSum(hist, "sum_hessians", t - 1), g, h>>, LAMBDA sums :
    LET gl == sums[1]
        hl == sums[2]
        gr == sums[3] - gl
        hr == sums[4] - hl
    IN IF hl < sp.min_hessian_to_split \/ hr < sp.min_hessian_to_split
       THEN NoSplit
       ELSE SplitInfo(split_gain(sp, gl, hl, gr, hr, sums[3], sums[4]),
                      f, t, gl, hl, gr, hr))

\* the candidate of feature f at threshold t: left = prefix, right = rest
Candidate(sp, f, hist, t, g, h) ==
    Once(<<PrefixSum(hist, "sum_gradients", t),
           PrefixSum(hist, "sum_hessians", t), g, h>>, LAMBDA sums :
    LET gl == sums[1]
        hl == sums[2]
        gr == sums[3] - gl
        hr == sums[4] - hl
    IN IF hl < sp.min_hessian_to_split \/ hr < sp.min_hessian_to_split
       THEN NoSplit
       ELSE SplitInfo(split_gain(sp, gl, hl, gr, hr, sums[3], sums[4]),
                      f, t, gl, hl, gr, hr))

\* keep best unless cand is strictly better (first maximum wins)
Better(best, cand) == IF QGreater(cand.gain, best.gain) THEN cand ELSE best

RECURSIVE ScanBins(_, _, _, _, _, _, _)
\* thresholds t..n_bins-2 of one feature, in increasing order
ScanBins(sp, f, hist, t, g, h, best) ==
    IF t > sp.n_bins - 2 THEN best
    ELSE Once(Candidate(sp, f, hist, t, g, h), LAMBDA cand :
         Once(Better(best, cand), LAMBDA kept :
         ScanBins(sp, f, hist, t + 1, g, h, kept)))

_find_histogram_split(sp, f, hist, g, h) ==
    ScanBins(sp, f, hist, 0, g, h, NoSplit)

RECURSIVE ScanFeatures(_, _, _, _, _, _)
\* features f..n_features in increasing order, strictly greatest gain wins
ScanFeatures(sp, hists, f, g, h, best) ==
    IF f > sp.n_features THEN best
    ELSE Once(_find_histogram_split(sp, f, hists[f], g, h), LAMBDA cand :
         Once(Better(best, cand), LAMBDA kept :
         ScanFeatures(sp, hists, f + 1, g, h, kept)))

\* totals the splitter computes for a sample set
node_sum_gradients(sp, S) == SumOver(sp.all_gradients, S)
node_sum_hessians(sp, S) ==
    IF sp.constant_hessian THEN sp.all_hessians[1] * Cardinality(S)
    ELSE SumOver(sp.all_hessians, S)

find_node_split(sp, S) ==
    LET hists == [f \in 1 .. sp.n_features |-> build_histogram(sp, f, S)]
    IN [split_info |-> ScanFeatures(sp, hists, 1, node_sum_gradients(sp, S),
                                    node_sum_hessians(sp, S), NoSplit),
        histograms |-> hists]

find_node_split_subtraction(sp, S, parent_hists, sibling_hists, g, h) ==
    LET hists == [f \in 1 .. sp.n_features |->
                     subtract_histograms(parent_hists[f], sibling_hists[f])]
    IN [split_info |-> ScanFeatures(sp, hists, 1, g, h, NoSplit),
        histograms |-> hists]

\* (left, right): a sample goes left iff its bin for feature_idx <= bin_idx
split_indices(sp, S, split_info) ==
    LET left == {i \in S :
                    sp.binned_features[i][split_info.feature_idx]
                        <= split_info.bin_idx}
    IN <<left, S \ left>>

\* --------------------------------------------------------------- heapq
\* variant: the comparison the other way round (lower gain first)
TreeNode_lt_lower_gain_first(ns, a, b) ==
    QLess(ns[a].split_info[1].gain, ns[b].split_info[1].gain)

\* TreeNode.__lt__: higher gain is "smaller", i.e. higher priority
TreeNode_lt(ns, a, b) ==
    QGreater(ns[a].split_info[1].gain, ns[b].split_info[1].gain)

RECURSIVE _siftdown(_, _, _, _, _)
\* heapq._siftdown with newitem = the item moved; positions count from 0
_siftdown(ns, heap, startpos, pos, newitem) ==
    IF pos > startpos /\ TreeNode_lt(ns, newitem, heap[((pos - 1) \div 2) + 1])
    THEN _siftdown(ns, [heap EXCEPT ![pos + 1] = heap[((pos - 1) \div 2) + 1]],
                   startpos, (pos - 1) \div 2, newitem)
    ELSE [heap EXCEPT ![pos + 1] = newitem]

RECURSIVE _siftup(_, _, _, _, _)
\* heapq._siftup: bubble the smaller child up to a leaf, then sift newitem down
_siftup(ns, heap, startpos, pos, newitem) ==
    LET endpos == Len(heap)
        childpos == 2 * pos + 1
        rightpos == childpos + 1
        c == IF rightpos < endpos
                /\ ~TreeNode_lt(ns, heap[childpos + 1], heap[rightpos + 1])
             THEN rightpos ELSE childpos
    IN IF childpos < endpos
       THEN _siftup(ns, [heap EXCEPT ![pos + 1] = heap[c + 1]], startpos, c, newitem)
       ELSE _siftdown(ns, heap, startpos, pos, newitem)

heappush(ns, heap, item) ==
    _siftdown(ns, Append(heap, item), 0, Len(heap), item)

\* <<returned item, heap afterwards>>
heappop(ns, heap) ==
    LET lastelt == heap[Len(heap)]
        rest == SubSeq(heap, 1, Len(heap) - 1)
    IN IF rest # <<>>
       THEN <<rest[1], _siftup(ns, rest, 0, 0, lastelt)>>
       ELSE <<lastelt, rest>>

\* ------------------------------------------------------------ TreeNode
TreeNode(depth, sample_indices, sum_gradients, sum_hessians) ==
    [depth |-> depth, sample_indices |-> sample_indices,
     sum_gradients |-> sum_gradients, sum_hessians |-> sum_hessians,
     split_info |-> None, left_child |-> 0, right_child |-> 0,
     weight |-> None]

\* ------------------------------------------------------------ the state
VARIABLES
    pc,               \* where the caller is: "new", "failed" (the
                      \* constructor raised), "ready", "growing" (inside
                      \* grow), "grow_failed" (grow raised), "done" (grow
                      \* returned), "predicted"; "t_..." in the harness
    raised,           \* exception the last call ended with, or "none"
    call_args,        \* the arguments the constructor was called with
    attrs,            \* names of the grower attributes assigned so far
    splitter,         \* self.splitter
    max_leaf_nodes,   \* <<k>>, or None
    max_depth,        \* <<d>>, or None
    features_data,    \* [sample -> [feature -> bin]]
    min_gain_to_split,
    nodes,            \* arena of the TreeNode objects, in creation order
    root,             \* arena index of self.root, 0 before it exists
    splittable_nodes, \* heapq list of arena indices
    finalized_leaves, \* list of arena indices
    n_nodes,          \* self.n_nodes
    n_evals,          \* number of find_node_split calls made so far
    last_branch,      \* what the last split_next did
    predictor_nodes,  \* array written by the last make_predictor
    t_in,             \* split-finder harness: the inputs of the call
    t_out             \* split-finder harness: the results

vars == <<pc, raised, call_args, attrs, splitter, max_leaf_nodes, max_depth,
          features_data, min_gain_to_split, nodes, root, splittable_nodes,
          finalized_leaves, n_nodes, n_evals, last_branch, predictor_nodes,
          t_in, t_out>>

grower_vars == <<attrs, splitter, max_leaf_nodes, max_depth, features_data,
                 min_gain_to_split, nodes, root, splittable_nodes,
                 finalized_leaves, n_nodes, n_evals>>
harness_vars == <<t_in, t_out>>

NoSplitter == HistogramSplitter(0, <<>>, 0, <<>>, <<>>)

\* the grower object as one value, as the methods below take and return it
Self ==
    [splitter |-> splitter, max_leaf_nodes |-> max_leaf_nodes,
     max_depth |-> max_depth, features_data |-> features_data,
     min_gain_to_split |-> min_gain_to_split, shrinkage |-> shrinkage,
     nodes |-> nodes, root |-> root,
     splittable_nodes |-> splittable_nodes,
     finalized_leaves |-> finalized_leaves, n_nodes |-> n_nodes,
     n_evals |-> n_evals]

\* ---------------------------------------------------------- TreeGrower
\* variant: the leaf is listed but its weight is not set
_finalize_leaf_without_weight(self, node) ==
    [self EXCEPT !.finalized_leaves = Append(@, node)]

_finalize_leaf(self, node) ==
    [self EXCEPT
        !.nodes[node].weight =
            <<self.shrinkage * self.nodes[node].sum_gradients,
              self.nodes[node].sum_hessians + self.splitter.l2_regularization>>,
        !.finalized_leaves = Append(@, node)]

\* variant: a gain equal to the threshold finalizes the node as well
_compute_spittability_at_most(self, node) ==
    Once(find_node_split(self.splitter,
                         self.nodes[node].sample_indices).split_info,
         LAMBDA split_info :
    Once([self EXCEPT !.nodes[node].split_info = <<split_info>>,
                      !.n_evals = @ + 1], LAMBDA s1 :
    IF ~QGreater(split_info.gain, <<self.min_gain_to_split, 1>>)
    THEN _finalize_leaf(s1, node)
    ELSE [s1 EXCEPT !.splittable_nodes = heappush(s1.nodes, @, node)]))

_compute_spittability(self, node) ==
    Once(find_node_split(self.splitter,
                         self.nodes[node].sample_indices).split_info,
         LAMBDA split_info :
    Once([self EXCEPT !.nodes[node].split_info = <<split_info>>,
                      !.n_evals = @ + 1], LAMBDA s1 :
    IF QLess(split_info.gain, <<self.min_gain_to_split, 1>>)
    THEN _finalize_leaf(s1, node)
    ELSE [s1 EXCEPT !.splittable_nodes = heappush(s1.nodes, @, node)]))

\* variant: no shortcut for a leaf budget of 1
_intilialize_root_always_evaluates(self) ==
    _compute_spittability(
        [self EXCEPT
            !.nodes = <<TreeNode(0, 1 .. Len(self.features_data),
                                 SeqSum(self.splitter.all_gradients),
                                 SeqSum(self.splitter.all_hessians))>>,
            !.root = 1], 1)

_intilialize_root(self) ==
    LET n_samples == Len(self.features_data)
        s1 == [self EXCEPT
                  !.nodes = <<TreeNode(0, 1 .. n_samples,
                                       SeqSum(self.splitter.all_gradients),
                                       SeqSum(self.splitter.all_hessians))>>,
                  !.root = 1]
    IN IF self.max_leaf_nodes # None /\ self.max_leaf_nodes[1] = 1
       THEN _finalize_leaf(s1, 1)
       ELSE _compute_spittability(s1, 1)

\* variant: the loop of grow stops one node early
can_split_further_needs_two(self) == Len(self.splittable_nodes) >= 2

can_split_further(self) == Len(self.splittable_nodes) >= 1

\* variant: the last queued node is finalized where it is, without pop()
_finalize_splittable_nodes_without_pop(self) ==
    IF Len(self.splittable_nodes) > 0
    THEN _finalize_leaf(self, self.splittable_nodes[Len(self.splittable_nodes)])
    ELSE self

RECURSIVE _finalize_splittable_nodes(_)
\* while the list is non-empty: pop() its last element and finalize it
_finalize_splittable_nodes(self) ==
    IF Len(self.splittable_nodes) > 0
    THEN LET node == self.splittable_nodes[Len(self.splittable_nodes)]
             s1 == [self EXCEPT !.splittable_nodes = SubSeq(@, 1, Len(@) - 1)]
         IN Once(_finalize_leaf(s1, node), LAMBDA s2 :
            _finalize_splittable_nodes(s2))
    ELSE self

\* variant: the two new children counted as one leaf
projected_leaf_count_off_by_one(self) ==
    Len(self.finalized_leaves) + Len(self.splittable_nodes) + 1

\* n_leaf_nodes of split_next, taken after the pop: the leaves there would
\* be if the two children became leaves
projected_leaf_count(self) ==
    Len(self.finalized_leaves) + Len(self.splittable_nodes) + 2

\* variant: the depth test made one level too late
depth_reached_late(self, depth) ==
    self.max_depth # None /\ depth = self.max_depth[1] + 1

\* the two stopping tests of split_next, in the order it makes them
depth_reached(self, depth) ==
    self.max_depth # None /\ depth = self.max_depth[1]
budget_reached(self, n_leaf_nodes) ==
    self.max_leaf_nodes # None /\ n_leaf_nodes = self.max_leaf_nodes[1]

\* variant: the right child is handed the parent's own sample_indices
SplitPopped_right_keeps_all(self) ==
    Once(heappop(self.nodes, self.splittable_nodes), LAMBDA popped :
    LET node == popped[1]
        s0 == [self EXCEPT !.splittable_nodes = popped[2]]
        sides == split_indices(s0.splitter, s0.nodes[node].sample_indices,
                               s0.nodes[node].split_info[1])
        depth == s0.nodes[node].depth + 1
        n_leaf_nodes == projected_leaf_count(s0)
        si == s0.nodes[node].split_info[1]
        left_child_node == Len(s0.nodes) + 1
        right_child_node == Len(s0.nodes) + 2
        s1 == [s0 EXCEPT
                  !.nodes = [(@ \o <<TreeNode(depth, sides[1], si.gradient_left,
                                              si.hessian_left),
                                     TreeNode(depth, s0.nodes[node].sample_indices, si.gradient_right,
                                              si.hessian_right)>>)
                             EXCEPT ![node].left_child = left_child_node,
                                    ![node].right_child = right_child_node],
                  !.n_nodes = @ + 2]
    IN Once(s1, LAMBDA s2 :
       IF depth_reached(s2, depth)
       THEN Once(_finalize_leaf(s2, left_child_node), LAMBDA s3 :
            <<_finalize_leaf(s3, right_child_node), "depth">>)
       ELSE IF budget_reached(s2, n_leaf_nodes)
       THEN Once(_finalize_leaf(s2, left_child_node), LAMBDA s3 :
            Once(_finalize_leaf(s3, right_child_node), LAMBDA s4 :
            <<_finalize_splittable_nodes(s4), "budget">>))
       ELSE Once(_compute_spittability(s2, left_child_node), LAMBDA s3 :
            <<_compute_spittability(s3, right_child_node), "evaluate">>)))

\* the part of split_next after the emptiness test; <<self, branch>>
SplitPopped(self) ==
    Once(heappop(self.nodes, self.splittable_nodes), LAMBDA popped :
    LET node == popped[1]
        s0 == [self EXCEPT !.splittable_nodes = popped[2]]
        sides == split_indices(s0.splitter, s0.nodes[node].sample_indices,
                               s0.nodes[node].split_info[1])
        depth == s0.nodes[node].depth + 1
        n_leaf_nodes == projected_leaf_count(s0)
        si == s0.nodes[node].split_info[1]
        left_child_node == Len(s0.nodes) + 1
        right_child_node == Len(s0.nodes) + 2
        s1 == [s0 EXCEPT
                  !.nodes = [(@ \o <<TreeNode(depth, sides[1], si.gradient_left,
                                              si.hessian_left),
                                     TreeNode(depth, sides[2], si.gradient_right,
                                              si.hessian_right)>>)
                             EXCEPT ![node].left_child = left_child_node,
                                    ![node].right_child = right_child_node],
                  !.n_nodes = @ + 2]
    IN Once(s1, LAMBDA s2 :
       IF depth_reached(s2, depth)
       THEN Once(_finalize_leaf(s2, left_child_node), LAMBDA s3 :
            <<_finalize_leaf(s3, right_child_node), "depth">>)
       ELSE IF budget_reached(s2, n_leaf_nodes)
       THEN Once(_finalize_leaf(s2, left_child_node), LAMBDA s3 :
            Once(_finalize_leaf(s3, right_child_node), LAMBDA s4 :
            <<_finalize_splittable_nodes(s4), "budget">>))
       ELSE Once(_compute_spittability(s2, left_child_node), LAMBDA s3 :
            <<_compute_spittability(s3, right_child_node), "evaluate">>)))

\* variant: a call on an empty queue returns without raising
split_next_silent(self) ==
    IF Len(self.splittable_nodes) = 0
    THEN [self |-> self, raised |-> "none", branch |-> "none"]
    ELSE Once(SplitPopped(self), LAMBDA r :
         [self |-> r[1], raised |-> "none", branch |-> r[2]])

\* split_next: [self, raised, branch]
split_next(self) ==
    IF Len(self.splittable_nodes) = 0
    THEN [self |-> self, raised |-> "StopIteration", branch |-> "none"]
    ELSE Once(SplitPopped(self), LAMBDA r :
         [self |-> r[1], raised |-> "none", branch |-> r[2]])

\* ----------------------------------------------------------- the inputs
RECURSIVE NonDecreasing(_, _, _)
\* the non-decreasing sequences of length n over lo..hi
NonDecreasing(n, lo, hi) ==
    IF n = 0 THEN {<<>>}
    ELSE UNION {{<<k>> \o s : s \in NonDecreasing(n - 1, k, hi)} : k \in lo .. hi}

\* the kinds of sample, numbered from 0: kind c has gradient -1 or 1 by the
\* parity of c. With one feature its bin is c \div 2, any of the n_bins
\* bins; with two features its bins are the two binary digits of c \div 2
KindGradient(c) == IF c % 2 = 0 THEN -1 ELSE 1
KindRow1(c) == <<c \div 2>>
KindRow2(c) == <<(c \div 2) % 2, (c \div 4) % 2>>

\* hessian arrays: the length-1 array of a constant hessian, and one
\* per-sample array
HessianArrays(n) == {<<1>>, [i \in 1 .. n |-> 1 + (i % 2)]}

\* the data sets: MaxSamples samples listed by non-decreasing kind (the
\* grower never looks at the order of its rows), with one feature or two
DataSets ==
    {[features_data |-> [i \in 1 .. MaxSamples |-> KindRow1(ks[i])],
      all_gradients |-> [i \in 1 .. MaxSamples |-> KindGradient(ks[i])],
      all_hessians |-> hs] :
        ks \in NonDecreasing(MaxSamples, 0, 2 * NBins - 1),
        hs \in HessianArrays(MaxSamples)}
    \cup
    {[features_data |-> [i \in 1 .. MaxSamples |-> KindRow2(ks[i])],
      all_gradients |-> [i \in 1 .. MaxSamples |-> KindGradient(ks[i])],
      all_hessians |-> hs] :
        ks \in NonDecreasing(MaxSamples, 0, 7),
        hs \in HessianArrays(MaxSamples)}

\* the budgets tried: unset, the invalid 0, and the ones that can bind
LeafBudgets == {None, <<0>>, <<1>>, <<2>>, <<3>>}
DepthBudgets == {None, <<0>>, <<1>>, <<2>>}
DTypes == {"uint8", "float32"}

\* ------------------------------------------------------------- actions
Init ==
    /\ pc = "new"
    /\ raised = "none"
    /\ call_args = None
    /\ attrs = {}
    /\ splitter = NoSplitter
    /\ max_leaf_nodes = None
    /\ max_depth = None
    /\ features_data = <<>>
    /\ min_gain_to_split = 0
    /\ nodes = <<>>
    /\ root = 0
    /\ splittable_nodes = <<>>
    /\ finalized_leaves = <<>>
    /\ n_nodes = 0
    /\ n_evals = 0
    /\ last_branch = "none"
    /\ predictor_nodes = <<>>
    /\ t_in = None
    /\ t_out = None

SetSelf(s) ==
    /\ splitter' = s.splitter
    /\ max_leaf_nodes' = s.max_leaf_nodes
    /\ max_depth' = s.max_depth
    /\ features_data' = s.features_data
    /\ min_gain_to_split' = s.min_gain_to_split
    /\ nodes' = s.nodes
    /\ root' = s.root
    /\ splittable_nodes' = s.splittable_nodes
    /\ finalized_leaves' = s.finalized_leaves
    /\ n_nodes' = s.n_nodes
    /\ n_evals' = s.n_evals

\* variant: max_depth is not checked
InitError_without_depth(dt, k, d) ==
    IF dt # "uint8" THEN "NotImplementedError"
    ELSE IF k # None /\ k[1] < 1 THEN "ValueError"
    ELSE "none"

\* TreeGrower.__init__: the exception it raises, or "none"
InitError(dt, k, d) ==
    IF dt # "uint8" THEN "NotImplementedError"
    ELSE IF k # None /\ k[1] < 1 THEN "ValueError"
    ELSE IF d # None /\ d[1] < 1 THEN "ValueError"
    ELSE "none"

\* variant: the node counter starts at 0
Constructed_counts_from_zero(ds, k, d, mg) ==
    LET s0 == [Self EXCEPT
                  !.splitter = HistogramSplitter(Len(ds.features_data[1]),
                                                 ds.features_data, NBins,
                                                 ds.all_gradients,
                                                 ds.all_hessians),
                  !.max_leaf_nodes = k, !.max_depth = d,
                  !.features_data = ds.features_data,
                  !.min_gain_to_split = mg,
                  !.splittable_nodes = <<>>, !.finalized_leaves = <<>>]
    IN [_intilialize_root(s0) EXCEPT !.n_nodes = 0]

\* TreeGrower.__init__ past its checks: the object it leaves
Constructed(ds, k, d, mg) ==
    LET s0 == [Self EXCEPT
                  !.splitter = HistogramSplitter(Len(ds.features_data[1]),
                                                 ds.features_data, NBins,
                                                 ds.all_gradients,
                                                 ds.all_hessians),
                  !.max_leaf_nodes = k, !.max_depth = d,
                  !.features_data = ds.features_data,
                  !.min_gain_to_split = mg,
                  !.splittable_nodes = <<>>, !.finalized_leaves = <<>>]
    IN [_intilialize_root(s0) EXCEPT !.n_nodes = 1]

Construct ==
    /\ pc = "new"
    /\ \E dt \in DTypes, k \in LeafBudgets, d \in DepthBudgets,
          mg \in MinGains :
        /\ call_args' = <<[dtype |-> dt, max_leaf_nodes |-> k,
                           max_depth |-> d, min_gain_to_split |-> mg]>>
        /\ IF InitError(dt, k, d) # "none"
           THEN /\ pc' = "failed"
                /\ raised' = InitError(dt, k, d)
                /\ UNCHANGED <<grower_vars, last_branch, predictor_nodes,
                               harness_vars>>
           ELSE \E ds \in DataSets :
                /\ pc' = "ready"
                /\ raised' = "none"
                /\ attrs' = {"splitter", "max_leaf_nodes", "max_depth",
                             "features_data", "min_gain_to_split",
                             "shrinkage", "splittable_nodes",
                             "finalized_leaves", "root", "n_nodes"}
                /\ \E s \in {Constructed(ds, k, d, mg)} : SetSelf(s)
                /\ UNCHANGED <<last_branch, predictor_nodes, harness_vars>>

\* a direct call of split_next between two other calls
SplitNext ==
    /\ pc \in {"ready", "done"}
    /\ \E r \in {split_next(Self)} :
          /\ SetSelf(r.self)
          /\ raised' = r.raised
          /\ last_branch' = r.branch
    /\ UNCHANGED <<pc, call_args, attrs, predictor_nodes, harness_vars>>

\* grow(): entering the loop
Grow ==
    /\ pc = "ready"
    /\ pc' = "growing"
    /\ raised' = "none"
    /\ UNCHANGED <<call_args, grower_vars, last_branch, predictor_nodes,
                   harness_vars>>

\* grow(): one turn of the loop
GrowStep ==
    /\ pc = "growing"
    /\ can_split_further(Self)
    /\ \E r \in {split_next(Self)} :
          /\ SetSelf(r.self)
          /\ raised' = r.raised
          /\ last_branch' = r.branch
          /\ pc' = IF r.raised = "none" THEN "growing" ELSE "grow_failed"
    /\ UNCHANGED <<call_args, attrs, predictor_nodes, harness_vars>>

\* grow(): the loop test fails and grow returns
GrowReturn ==
    /\ pc = "growing"
    /\ ~can_split_further(Self)
    /\ pc' = "done"
    /\ UNCHANGED <<raised, call_args, grower_vars, last_branch,
                   predictor_nodes, harness_vars>>

\* np.zeros(1, dtype=PREDICTOR_RECORD_DTYPE)[0]
ZeroRecord ==
    [feature_idx |-> 0, bin_threshold |-> 0, left |-> 0, right |-> 0,
     weight |-> <<0, 1>>, is_leaf |-> FALSE]

\* variant: the threshold of a decision node is left at 0
decision_record_without_threshold(rec, split_info) ==
    [rec EXCEPT !.feature_idx = split_info.feature_idx]

\* the two fields a decision node copies from its split_info
decision_record(rec, split_info) ==
    [rec EXCEPT !.feature_idx = split_info.feature_idx,
                !.bin_threshold = split_info.bin_idx]

RECURSIVE _fill_predictor_node_array_right_early(_, _, _, _)
\* variant: the right link is recorded before the left subtree is filled
_fill_predictor_node_array_right_early(ns, arr, grower_node, next_free_idx) ==
    IF next_free_idx >= Len(arr)
    THEN [arr |-> arr, next |-> next_free_idx, raised |-> "IndexError"]
    ELSE IF grower_node = 0
    THEN [arr |-> arr, next |-> next_free_idx, raised |-> "AttributeError"]
    ELSE IF ns[grower_node].weight # None
    THEN [arr |-> [arr EXCEPT ![next_free_idx + 1].weight = ns[grower_node].weight,
                              ![next_free_idx + 1].is_leaf = TRUE],
          next |-> next_free_idx + 1, raised |-> "none"]
    ELSE IF ns[grower_node].split_info = None
    THEN [arr |-> arr, next |-> next_free_idx, raised |-> "AttributeError"]
    ELSE LET split_info == ns[grower_node].split_info[1]
             a1 == [arr EXCEPT
                       ![next_free_idx + 1] =
                           [decision_record(@, split_info)
                               EXCEPT !.left = next_free_idx + 1,
                                      !.right = next_free_idx + 1]]
             l == _fill_predictor_node_array_right_early(
                      ns, a1, ns[grower_node].left_child, next_free_idx + 1)
         IN IF l.raised # "none" THEN l
            ELSE _fill_predictor_node_array_right_early(
                     ns, l.arr, ns[grower_node].right_child, l.next)

RECURSIVE _fill_predictor_node_array(_, _, _, _)
\* [arr, next, raised]: the array after the fill of the subtree of
\* grower_node from slot next_free_idx on, the value returned, the exception
_fill_predictor_node_array(ns, arr, grower_node, next_free_idx) ==
    IF next_free_idx >= Len(arr)
    THEN [arr |-> arr, next |-> next_free_idx, raised |-> "IndexError"]
    ELSE IF grower_node = 0
    THEN [arr |-> arr, next |-> next_free_idx, raised |-> "AttributeError"]
    ELSE IF ns[grower_node].weight # None
    THEN [arr |-> [arr EXCEPT ![next_free_idx + 1].weight = ns[grower_node].weight,
                              ![next_free_idx + 1].is_leaf = TRUE],
          next |-> next_free_idx + 1, raised |-> "none"]
    ELSE IF ns[grower_node].split_info = None
    THEN [arr |-> arr, next |-> next_free_idx, raised |-> "AttributeError"]
    ELSE LET split_info == ns[grower_node].split_info[1]
             a1 == [arr EXCEPT
                       ![next_free_idx + 1] =
                           [decision_record(@, split_info)
                               EXCEPT !.left = next_free_idx + 1]]
             l == _fill_predictor_node_array(ns, a1, ns[grower_node].left_child,
                                             next_free_idx + 1)
             a2 == [l.arr EXCEPT ![next_free_idx + 1].right = l.next]
         IN IF l.raised # "none" THEN l
            ELSE _fill_predictor_node_array(ns, a2, ns[grower_node].right_child,
                                            l.next)

\* make_predictor: the array handed to TreePredictor, and the exception
make_predictor(self) ==
    _fill_predictor_node_array(self.nodes,
                               [i \in 1 .. self.n_nodes |-> ZeroRecord],
                               self.root, 0)

\* make_predictor() on the tree grow() left
MakePredictor ==
    /\ pc = "done"
    /\ \E r \in {make_predictor(Self)} :
          /\ raised' = r.raised
          /\ predictor_nodes' = IF r.raised = "none" THEN r.arr ELSE predictor_nodes
    /\ pc' = "predicted"
    /\ UNCHANGED <<call_args, grower_vars, last_branch, harness_vars>>

Next ==
    Construct \/ SplitNext \/ Grow \/ GrowStep \/ GrowReturn \/ MakePredictor

Spec == Init /\ [][Next]_vars

\* grow() is a plain loop: once entered, each turn and the return are taken
LiveSpec == Spec /\ WF_vars(GrowStep) /\ WF_vars(GrowReturn)

\* ---------------------------------- split_next on a node with no split
\* TreeNode fields are plain attributes: a caller can hand split_next a
\* queued node whose sample_indices are empty, or whose split_info sends
\* every sample to the left. The grower is built as the constructor builds
\* it (both budgets unset), then its queued root is changed in one of the
\* two ways.
GrowerOver(ds, mg) ==
    [_intilialize_root(
         [splitter |-> HistogramSplitter(Len(ds.features_data[1]),
                                         ds.features_data, NBins,
                                         ds.all_gradients, ds.all_hessians),
          max_leaf_nodes |-> None, max_depth |-> None,
          features_data |-> ds.features_data, min_gain_to_split |-> mg,
          shrinkage |-> shrinkage, nodes |-> <<>>, root |-> 0,
          splittable_nodes |-> <<>>, finalized_leaves |-> <<>>,
          n_nodes |-> 0, n_evals |-> 0])
        EXCEPT !.n_nodes = 1]

WithEmptyRoot(s) == [s EXCEPT !.nodes[1].sample_indices = {}]
WithOneSidedRoot(s) ==
    [s EXCEPT !.nodes[1].split_info[1].bin_idx = s.splitter.n_bins - 1]

GuardInit ==
    /\ pc = "ready"
    /\ raised = "none"
    /\ attrs = {"splitter", "max_leaf_nodes", "max_depth", "features_data",
                "min_gain_to_split", "shrinkage", "splittable_nodes",
                "finalized_leaves", "root", "n_nodes"}
    /\ last_branch = "none"
    /\ predictor_nodes = <<>>
    /\ t_in = None
    /\ t_out = None
    /\ \E ds \in DataSets, mg \in MinGains :
          /\ call_args = <<[dtype |-> "uint8", max_leaf_nodes |-> None,
                            max_depth |-> None, min_gain_to_split |-> mg]>>
          /\ \E s \in {WithEmptyRoot(GrowerOver(ds, mg)),
                        WithOneSidedRoot(GrowerOver(ds, mg))} :
                /\ s.splittable_nodes # <<>>
                /\ splitter = s.splitter
                /\ max_leaf_nodes = s.max_leaf_nodes
                /\ max_depth = s.max_depth
                /\ features_data = s.features_data
                /\ min_gain_to_split = s.min_gain_to_split
                /\ nodes = s.nodes
                /\ root = s.root
                /\ splittable_nodes = s.splittable_nodes
                /\ finalized_leaves = s.finalized_leaves
                /\ n_nodes = s.n_nodes
                /\ n_evals = s.n_evals

GuardNext == SplitNext

GuardSpec == GuardInit /\ [][GuardNext]_vars

\* ------------------------------------------- the split finder on its own
\* The split searches called directly, as tests/test_splitting.py calls
\* them: a splitter over a data set, a partition of its samples into left
\* and right, both searches on both sides.
SplitterOf(ds) ==
    HistogramSplitter(Len(ds.features_data[1]), ds.features_data, NBins,
                      ds.all_gradients, ds.all_hessians)

HarnessInit ==
    /\ pc = "t_new"
    /\ raised = "none"
    /\ call_args = None
    /\ attrs = {}
    /\ splitter = NoSplitter
    /\ max_leaf_nodes = None
    /\ max_depth = None
    /\ features_data = <<>>
    /\ min_gain_to_split = 0
    /\ nodes = <<>>
    /\ root = 0
    /\ splittable_nodes = <<>>
    /\ finalized_leaves = <<>>
    /\ n_nodes = 0
    /\ n_evals = 0
    /\ last_branch = "none"
    /\ predictor_nodes = <<>>
    /\ \E ds \in DataSets, left \in SUBSET (1 .. MaxSamples) :
          /\ 1 \in left
          /\ t_in = [sp |-> SplitterOf(ds), left |-> left,
                     right |-> (1 .. MaxSamples) \ left]
    /\ t_out = None

\* the sums the test hands to the subtraction search: those of the side's
\* own SplitInfo
side_sums(si) ==
    [sum_gradients |-> si.gradient_left + si.gradient_right,
     sum_hessians |-> si.hessian_left + si.hessian_right]

\* find_node_split_subtraction on one side, from the parent's and the other
\* side's histograms and the sums given
SubtractionSearch(side, other, sums) ==
    find_node_split_subtraction(t_in.sp, t_in[side], t_out.parent.histograms,
                                t_out[other].histograms, sums.sum_gradients,
                                sums.sum_hessians)

\* the sums of a side taken over its samples
TrueSums(side) ==
    [sum_gradients |-> node_sum_gradients(t_in.sp, t_in[side]),
     sum_hessians |-> node_sum_hessians(t_in.sp, t_in[side])]

\* find_node_split on the parent and on both sides
FindNodeSplit ==
    /\ pc = "t_new"
    /\ t_out' = [parent |-> find_node_split(t_in.sp, 1 .. MaxSamples),
                 left |-> find_node_split(t_in.sp, t_in.left),
                 right |-> find_node_split(t_in.sp, t_in.right)]
    /\ pc' = "t_direct"
    /\ UNCHANGED <<raised, call_args, grower_vars, last_branch,
                   predictor_nodes, t_in>>

\* find_node_split_subtraction on both sides, from the histograms above
FindNodeSplitSubtraction ==
    /\ pc = "t_direct"
    /\ t_out' =
          [left |-> t_out.left, right |-> t_out.right,
           left_sub |->
               SubtractionSearch("left", "right", side_sums(t_out.left.split_info)),
           right_sub |->
               SubtractionSearch("right", "left", side_sums(t_out.right.split_info)),
           left_sub_sums |-> SubtractionSearch("left", "right", TrueSums("left")),
           right_sub_sums |-> SubtractionSearch("right", "left", TrueSums("right"))]
    /\ pc' = "t_subtraction"
    /\ UNCHANGED <<raised, call_args, grower_vars, last_branch,
                   predictor_nodes, t_in>>

\* _find_histogram_split on the first feature over all samples, under the
\* feature index the caller passes
FindHistogramSplit ==
    /\ pc = "t_new"
    /\ \E feature_idx \in {1, 12} :
          t_out' =
              [feature_idx |-> feature_idx,
               split_info |->
                   _find_histogram_split(
                       t_in.sp, feature_idx,
                       build_histogram(t_in.sp, 1, 1 .. MaxSamples),
                       node_sum_gradients(t_in.sp, 1 .. MaxSamples),
                       node_sum_hessians(t_in.sp, 1 .. MaxSamples))]
    /\ pc' = "t_histogram"
    /\ UNCHANGED <<raised, call_args, grower_vars, last_branch,
                   predictor_nodes, t_in>>

HarnessNext == FindNodeSplit \/ FindNodeSplitSubtraction \/ FindHistogramSplit

SplitterSpec == HarnessInit /\ [][HarnessNext]_vars

\* ======================================================== properties
NodeIds == 1 .. Len(nodes)
Range(q) == {q[i] : i \in 1 .. Len(q)}
Constructed_ == pc \in {"ready", "growing", "grow_failed", "done", "predicted"}
IsChildless(n) == nodes[n].left_child = 0 /\ nodes[n].right_child = 0
IsFinalizedLeaf(n) ==
    /\ n \in Range(finalized_leaves)
    /\ nodes[n].weight # None
    /\ IsChildless(n)

\* C1 (as stated): with max_leaf_nodes = k, when grow() returns exactly k
\* leaves are finalized and the queue is empty, whatever max_depth is.
C1_ExactlyKLeaves ==
    (pc = "done" /\ max_leaf_nodes # None) =>
        /\ Len(finalized_leaves) = max_leaf_nodes[1]
        /\ splittable_nodes = <<>>

\* grow() returned with more leaves than the budget: under max_leaf_nodes
\* = 3 and max_depth = 2 the depth branch finalized the children of the
\* first depth-1 node when the projected count was 3, the budget branch was
\* not tried, and the other depth-1 node was split as well (every split
\* with a gain above 0)
C1_Witness ==
    /\ pc = "done"
    /\ max_leaf_nodes = <<3>>
    /\ max_depth = <<2>>
    /\ splittable_nodes = <<>>
    /\ Len(finalized_leaves) = 4
    /\ \A n \in NodeIds :
          ~IsChildless(n) => nodes[n].split_info[1].gain[1] > 0

\* C2: with max_depth = d, in every state no node is deeper than d, and
\* every node at depth d is a finalized leaf: weight set, no children,
\* never evaluated and so never pushed on the splittable queue.
C2_DepthLaw ==
    (Constructed_ /\ max_depth # None) =>
        \A n \in NodeIds :
            /\ nodes[n].depth <= max_depth[1]
            /\ nodes[n].depth = max_depth[1] =>
                   /\ IsFinalizedLeaf(n)
                   /\ nodes[n].split_info = None
                   /\ n \notin Range(splittable_nodes)

\* two levels were grown under max_depth = 2 and split_next went on
C2_Witness ==
    /\ max_depth = <<2>>
    /\ last_branch = "depth"
    /\ Cardinality({n \in NodeIds : nodes[n].depth = 2}) = 4

\* C3: with max_leaf_nodes = 1 the constructor finalizes the root as the
\* only leaf without a call of the split search and leaves the queue empty,
\* and no later call changes that: n_nodes stays 1, the root has no child.
C3_DegenerateLaw ==
    (Constructed_ /\ max_leaf_nodes = <<1>>) =>
        /\ finalized_leaves = <<root>>
        /\ root = 1
        /\ Len(nodes) = 1
        /\ nodes[root].weight # None
        /\ IsChildless(root)
        /\ n_evals = 0
        /\ splittable_nodes = <<>>
        /\ n_nodes = 1

\* grow() has returned on a grower built with max_leaf_nodes = 1 over data
\* whose root would otherwise split
C3_Witness ==
    /\ pc = "done"
    /\ max_leaf_nodes = <<1>>
    /\ find_node_split(splitter, 1 .. MaxSamples).split_info.gain[1] > 0

\* the fields of a SplitInfo the equivalence is about
SameSplit(a, b) ==
    /\ QEqual(a.gain, b.gain)
    /\ a.feature_idx = b.feature_idx
    /\ a.gradient_left = b.gradient_left
    /\ a.gradient_right = b.gradient_right
    /\ a.hessian_left = b.hessian_left
    /\ a.hessian_right = b.hessian_right

SameResult(sub, direct) ==
    /\ sub.histograms = direct.histograms
    /\ SameSplit(sub.split_info, direct.split_info)

\* C4: for any partition of the samples into left and right, the
\* subtraction search on a side (parent's histograms, other side's
\* histograms, the side's sums) returns the histograms and the SplitInfo of
\* find_node_split on that side, with a constant and with per-sample hessians.
C4_SubtractionEquivalence ==
    pc = "t_subtraction" =>
        /\ SameResult(t_out.left_sub, t_out.left)
        /\ SameResult(t_out.right_sub, t_out.right)
        /\ SameResult(t_out.left_sub_sums, t_out.left)
        /\ SameResult(t_out.right_sub_sums, t_out.right)

\* both searches ran on two features with per-sample hessians, on a
\* partition whose two sides each have a split of positive gain
C4_Witness ==
    /\ pc = "t_subtraction"
    /\ t_in.sp.n_features = 2
    /\ ~t_in.sp.constant_hessian
    /\ t_out.left.split_info.gain[1] > 0
    /\ t_out.right.split_info.gain[1] > 0
    /\ t_out.left_sub.split_info.gain[1] > 0

\* one feature, uniform hessians, gradients -s in the bins <= b, s above
Planted(b, s) ==
    /\ t_in.sp.n_features = 1
    /\ t_in.sp.constant_hessian
    /\ \A i \in 1 .. MaxSamples :
          t_in.sp.all_gradients[i] =
              IF t_in.sp.binned_features[i][1] <= b THEN -s ELSE s

\* the search found threshold b with a gain >= 0 for the feature it was given
Recovered(b) ==
    /\ t_out.split_info.bin_idx = b
    /\ t_out.split_info.gain[1] >= 0
    /\ t_out.split_info.feature_idx = t_out.feature_idx

\* C5 (as stated): on every single-feature data set with the gradients of
\* one sign in the bins <= b and of the other sign above (samples on both
\* sides), and uniform hessians, the histogram search returns bin_idx = b,
\* gain >= 0 and the feature_idx given.
C5_RecoversAnyPlantedBin ==
    pc = "t_histogram" =>
        \A b \in 0 .. (NBins - 2), s \in {-1, 1} :
            (/\ Planted(b, s)
             /\ \E i \in 1 .. MaxSamples : t_in.sp.binned_features[i][1] <= b
             /\ \E i \in 1 .. MaxSamples : t_in.sp.binned_features[i][1] > b)
                => Recovered(b)

\* C5 (amended): the same, for the data sets that have a sample in bin b
\* and a sample in bin b + 1, so that no other threshold cuts the samples
\* as b does.
C5_RecoversPopulatedPlantedBin ==
    pc = "t_histogram" =>
        \A b \in 0 .. (NBins - 2), s \in {-1, 1} :
            (/\ Planted(b, s)
             /\ \E i \in 1 .. MaxSamples : t_in.sp.binned_features[i][1] = b
             /\ \E i \in 1 .. MaxSamples :
                   t_in.sp.binned_features[i][1] = b + 1)
                => Recovered(b)

\* the search ran under feature index 12 on data planted at bin 1, with
\* samples in every bin, and returned bin 1
C5_Witness ==
    /\ pc = "t_histogram"
    /\ Planted(1, 1)
    /\ \A b \in 0 .. (NBins - 1) :
          \E i \in 1 .. MaxSamples : t_in.sp.binned_features[i][1] = b
    /\ t_out.feature_idx = 12
    /\ Recovered(1)

RECURSIVE PredictSlot(_, _, _, _)
\* the slot a row ends in: from slot on, left when the row's bin for
\* feature_idx is <= bin_threshold, right otherwise, until an is_leaf
\* record; -1 when no leaf is met within fuel steps
PredictSlot(arr, row, slot, fuel) ==
    IF fuel = 0 \/ slot < 0 \/ slot >= Len(arr) THEN -1
    ELSE IF arr[slot + 1].is_leaf THEN slot
    ELSE IF row[arr[slot + 1].feature_idx] <= arr[slot + 1].bin_threshold
    THEN PredictSlot(arr, row, arr[slot + 1].left, fuel - 1)
    ELSE PredictSlot(arr, row, arr[slot + 1].right, fuel - 1)

RECURSIVE TreeLeaf(_, _)
\* the node a row ends in when it walks the tree from node n
TreeLeaf(n, row) ==
    IF IsChildless(n) THEN n
    ELSE IF row[nodes[n].split_info[1].feature_idx]
                <= nodes[n].split_info[1].bin_idx
    THEN TreeLeaf(nodes[n].left_child, row)
    ELSE TreeLeaf(nodes[n].right_child, row)

RECURSIVE Preorder(_)
\* the nodes of the subtree of n in preorder
Preorder(n) ==
    IF IsChildless(n) THEN <<n>>
    ELSE <<n>> \o Preorder(nodes[n].left_child)
               \o Preorder(nodes[n].right_child)

\* C6: for a tree grown to completion, make_predictor raises nothing and
\* every training sample, walked through the array from slot 0, ends in the
\* is_leaf record of the leaf the walk through the tree ends in, holding
\* that leaf's weight.
C6_PredictorRoundTrip ==
    pc = "predicted" =>
        /\ raised = "none"
        /\ \A i \in 1 .. MaxSamples :
              LET slot == PredictSlot(predictor_nodes, features_data[i], 0,
                                      Len(predictor_nodes))
                  leaf == TreeLeaf(root, features_data[i])
              IN /\ slot >= 0
                 /\ predictor_nodes[slot + 1].is_leaf
                 /\ Preorder(root)[slot + 1] = leaf
                 /\ predictor_nodes[slot + 1].weight = nodes[leaf].weight

\* the array of a tree of 5 nodes whose root splits at a threshold above 0
\* and has its right child in slot 4, the leaves holding different weights
C6_Witness ==
    /\ pc = "predicted"
    /\ n_nodes = 5
    /\ predictor_nodes[1].bin_threshold > 0
    /\ predictor_nodes[1].right = 4
    /\ \A a, b \in Range(finalized_leaves) :
          a # b => ~QEqual(nodes[a].weight, nodes[b].weight)

\* C7: grow() returns whatever the budgets and the gain threshold are, and
\* when it has returned the queue is empty and every node without
\* children is a finalized leaf.
C7_Termination ==
    /\ (pc = "growing") ~> (pc = "done")
    /\ [](pc = "done" =>
            /\ splittable_nodes = <<>>
            /\ \A n \in NodeIds : IsChildless(n) => IsFinalizedLeaf(n))

\* grow() returned with both budgets unset after three splits
C7_Witness ==
    /\ pc = "done"
    /\ max_leaf_nodes = None
    /\ max_depth = None
    /\ n_nodes = 7

\* C8: grow() never ends with an exception; split_next called on an empty
\* queue raises StopIteration and changes nothing of the grower.
C8_ExhaustionIsNoError ==
    [][/\ pc' # "grow_failed"
       /\ (pc \in {"ready", "done"} /\ pc' = pc /\ splittable_nodes = <<>>) =>
              /\ raised' = "StopIteration"
              /\ UNCHANGED grower_vars]_vars

\* split_next was called after grow() had returned
C8_Witness ==
    /\ pc = "done"
    /\ raised = "StopIteration"
    /\ n_nodes >= 3

InvalidArgs(a) ==
    \/ a.dtype # "uint8"
    \/ a.max_leaf_nodes # None /\ a.max_leaf_nodes[1] < 1
    \/ a.max_depth # None /\ a.max_depth[1] < 1

\* C9: a constructor call with max_leaf_nodes < 1, max_depth < 1 or a
\* feature matrix that is not uint8 raises, and raises before the root
\* exists, before any split search and before any attribute is assigned;
\* the other calls build the grower.
C9_ConfigurationErrors ==
    pc # "new" /\ call_args # None =>
        /\ InvalidArgs(call_args[1]) <=> pc = "failed"
        /\ pc = "failed" =>
              /\ raised = IF call_args[1].dtype # "uint8"
                          THEN "NotImplementedError" ELSE "ValueError"
              /\ attrs = {}
              /\ splitter = NoSplitter
              /\ root = 0
              /\ nodes = <<>>
              /\ n_nodes = 0
              /\ n_evals = 0
              /\ splittable_nodes = <<>> /\ finalized_leaves = <<>>

\* the constructor raised on max_depth = 0 alone
C9_Witness ==
    /\ pc = "failed"
    /\ raised = "ValueError"
    /\ call_args[1].dtype = "uint8"
    /\ call_args[1].max_leaf_nodes = <<2>>
    /\ call_args[1].max_depth = <<0>>

\* C10: for every internal node the left and right sums of its split_info
\* add up to the node's sum_gradients and sum_hessians, so do the sums of
\* its two children, and each child's sums are the sums of the gradients
\* and hessians over the child's own samples.
C10_Conservation ==
    \A n \in NodeIds :
        ~IsChildless(n) =>
            LET si == nodes[n].split_info[1]
                l == nodes[nodes[n].left_child]
                r == nodes[nodes[n].right_child]
            IN /\ si.gradient_left + si.gradient_right = nodes[n].sum_gradients
               /\ si.hessian_left + si.hessian_right = nodes[n].sum_hessians
               /\ l.sum_gradients + r.sum_gradients = nodes[n].sum_gradients
               /\ l.sum_hessians + r.sum_hessians = nodes[n].sum_hessians
               /\ \A c \in {l, r} :
                     /\ c.sum_gradients =
                            node_sum_gradients(splitter, c.sample_indices)
                     /\ c.sum_hessians =
                            node_sum_hessians(splitter, c.sample_indices)

\* the root of a grower with a constant hessian was split: its sum_hessians
\* is the one entry of the hessian array, its split_info counts every sample
C10_Witness ==
    /\ Constructed_
    /\ splitter.constant_hessian
    /\ ~IsChildless(root)
    /\ nodes[root].sum_hessians = splitter.all_hessians[1]
    /\ nodes[root].split_info[1].hessian_left
           + nodes[root].split_info[1].hessian_right
         = splitter.all_hessians[1] * Len(features_data)

\* C11: with max_leaf_nodes = k, in every state after construction and
\* after any sequence of split_next calls at most k leaves are finalized,
\* max_depth set or not.
C11_LeafBudgetUpperBound ==
    (Constructed_ /\ max_leaf_nodes # None) =>
        Len(finalized_leaves) <= max_leaf_nodes[1]

\* reached by direct split_next calls alone: under a budget of 3 leaves and
\* max_depth = 2 the last call took the depth branch and left 4 leaves
C11_Witness ==
    /\ pc = "ready"
    /\ max_leaf_nodes = <<3>>
    /\ max_depth = <<2>>
    /\ last_branch = "depth"
    /\ Len(finalized_leaves) = 4
    /\ \A n \in NodeIds :
          ~IsChildless(n) => nodes[n].split_info[1].gain[1] > 0

\* the gain a node was queued with
GainOf(n) == nodes[n].split_info[1].gain

\* C12: every split_next call that splits a node splits exactly one node
\* of the queue as the call found it, and the gain of that node is greater
\* than or equal to the gain of every other node that was in the queue.
C12_MaxGainFirst ==
    [][n_nodes' = n_nodes + 2 =>
          \E n \in Range(splittable_nodes) :
              /\ nodes'[n].left_child = Len(nodes) + 1
              /\ nodes'[n].right_child = Len(nodes) + 2
              /\ \A m \in Range(splittable_nodes) :
                    /\ ~QLess(GainOf(n), GainOf(m))
                    /\ m # n => nodes'[m].left_child = 0]_vars

\* the last call split node 3, which had been pushed after node 2 and with
\* a strictly greater gain; node 2 is still in the queue
C12_Witness ==
    /\ Len(nodes) = 5
    /\ nodes[3].left_child = 4
    /\ 2 \in Range(splittable_nodes)
    /\ QGreater(GainOf(3), GainOf(2))

\* node n is a finalized leaf in the state a step leads to
IsFinalizedLeafNext(n) ==
    /\ n \in Range(finalized_leaves')
    /\ nodes'[n].weight # None
    /\ nodes'[n].left_child = 0 /\ nodes'[n].right_child = 0

\* C13: a split_next call that finds len(finalized_leaves) + len(queue
\* after the pop) + 2 equal to max_leaf_nodes, the new children not being
\* at max_depth, leaves both children and every node that was still queued
\* finalized (weight set, no children), the queue empty, and makes no call
\* of the split search.
C13_BudgetDrain ==
    [][(/\ n_nodes' = n_nodes + 2
        /\ max_leaf_nodes # None
        /\ Len(finalized_leaves) + (Len(splittable_nodes) - 1) + 2
               = max_leaf_nodes[1]
        /\ ~(max_depth # None /\ nodes'[Len(nodes) + 1].depth = max_depth[1]))
       => /\ splittable_nodes' = <<>>
          /\ IsFinalizedLeafNext(Len(nodes) + 1)
          /\ IsFinalizedLeafNext(Len(nodes) + 2)
          /\ \A m \in Range(splittable_nodes) :
                nodes'[m].left_child = 0 => IsFinalizedLeafNext(m)
          /\ n_evals' = n_evals]_vars

\* the budget branch ran under a budget of 3 leaves and finalized, besides
\* the two children, a node taken from the queue that had been queued with
\* a gain above 0
C13_Witness ==
    /\ last_branch = "budget"
    /\ max_leaf_nodes = <<3>>
    /\ Len(finalized_leaves) = 3
    /\ splittable_nodes = <<>>
    /\ \E m \in Range(finalized_leaves) :
          /\ nodes[m].split_info # None
          /\ GainOf(m)[1] > 0

\* C14: a call of _compute_spittability raises nothing and leaves its node
\* with split_info attached and in exactly one place: among the finalized
\* leaves, with a weight, if the gain is below min_gain_to_split (the gain
\* of "no feasible threshold" included), otherwise in the queue, with no
\* weight. The nodes evaluated by a step are the nodes it created.
C14_EvaluateOutcome ==
    [][n_evals' # n_evals =>
          /\ raised' = "none"
          /\ n_evals' = n_evals + (Len(nodes') - Len(nodes))
          /\ \A n \in (Len(nodes) + 1) .. Len(nodes') :
                /\ nodes'[n].split_info # None
                /\ IF QLess(nodes'[n].split_info[1].gain,
                            <<min_gain_to_split', 1>>)
                   THEN /\ IsFinalizedLeafNext(n)
                        /\ n \notin Range(splittable_nodes')
                   ELSE /\ n \in Range(splittable_nodes')
                        /\ nodes'[n].weight = None
                        /\ n \notin Range(finalized_leaves')]_vars

\* the last call evaluated two children: the left has no feasible
\* threshold and was finalized, the right has a gain above 0 and was queued
C14_Witness ==
    /\ last_branch = "evaluate"
    /\ Len(nodes) >= 3
    /\ GainOf(Len(nodes))[1] > 0
    /\ nodes[Len(nodes) - 1].split_info = <<NoSplit>>
    /\ nodes[Len(nodes) - 1].weight # None
    /\ Len(nodes) \in Range(splittable_nodes)

\* the three states of a node
IsSplittable(n) ==
    /\ n \in Range(splittable_nodes)
    /\ n \notin Range(finalized_leaves)
    /\ nodes[n].split_info # None
    /\ ~QLess(GainOf(n), <<min_gain_to_split, 1>>)
    /\ IsChildless(n)
    /\ nodes[n].weight = None
IsLeafOnly(n) ==
    /\ IsFinalizedLeaf(n)
    /\ n \notin Range(splittable_nodes)
IsInternal(n) ==
    /\ n \notin Range(splittable_nodes)
    /\ n \notin Range(finalized_leaves)
    /\ nodes[n].split_info # None
    /\ nodes[n].left_child # 0
    /\ nodes[n].right_child # 0
    /\ nodes[n].weight = None

\* C15: between operations every node is reachable from the root and is
\* in exactly one of the states splittable, finalized leaf, internal; so
\* no node has a weight and children, or one child only.
C15_NodeStates ==
    Constructed_ =>
        /\ Range(Preorder(root)) = NodeIds
        /\ \A n \in NodeIds :
              /\ Cardinality({st \in {"splittable", "leaf", "internal"} :
                                \/ st = "splittable" /\ IsSplittable(n)
                                \/ st = "leaf" /\ IsLeafOnly(n)
                                \/ st = "internal" /\ IsInternal(n)}) = 1
              /\ ~(nodes[n].weight # None /\ ~IsChildless(n))
              /\ (nodes[n].left_child = 0) <=> (nodes[n].right_child = 0)

\* a tree that holds a node of each state at once
C15_Witness ==
    /\ pc = "ready"
    /\ \E a, b, c \in NodeIds :
          IsSplittable(a) /\ IsLeafOnly(b) /\ IsInternal(c)

\* the nodes that hold samples not handed on: finalized leaves and queued
Frontier == Range(finalized_leaves) \cup Range(splittable_nodes)

\* C16: every split gives the left child the parent's samples whose bin for
\* split_info.feature_idx is <= split_info.bin_idx and the right child the
\* others; and in every state each sample is in the sample set of exactly
\* one node among the finalized leaves and the queued nodes.
C16_SamplePartition ==
    Constructed_ =>
        /\ \A n \in NodeIds :
              ~IsChildless(n) =>
                  LET si == nodes[n].split_info[1]
                      S == nodes[n].sample_indices
                      L == {i \in S :
                               features_data[i][si.feature_idx] <= si.bin_idx}
                  IN /\ nodes[nodes[n].left_child].sample_indices = L
                     /\ nodes[nodes[n].right_child].sample_indices = S \ L
        /\ \A i \in 1 .. Len(features_data) :
              Cardinality({n \in Frontier : i \in nodes[n].sample_indices}) = 1

\* two splits made, on different features, with a queued node and
\* finalized leaves side by side
C16_Witness ==
    /\ pc = "ready"
    /\ n_nodes = 5
    /\ splittable_nodes # <<>>
    /\ finalized_leaves # <<>>
    /\ \E a, b \in NodeIds :
          /\ ~IsChildless(a) /\ ~IsChildless(b)
          /\ nodes[a].split_info[1].feature_idx
                 # nodes[b].split_info[1].feature_idx

\* the record _fill_predictor_node_array leaves in slot i for node n
SlotRecord(n, i) ==
    IF nodes[n].weight # None
    THEN [ZeroRecord EXCEPT !.weight = nodes[n].weight, !.is_leaf = TRUE]
    ELSE [ZeroRecord EXCEPT
             !.feature_idx = nodes[n].split_info[1].feature_idx,
             !.bin_threshold = nodes[n].split_info[1].bin_idx,
             !.left = i + 1,
             !.right = i + 1 + Len(Preorder(nodes[n].left_child))]

\* C17: for a tree grown to completion make_predictor fills the slots
\* 0..n_nodes-1 in preorder, each with the record of its node and nothing
\* else (an internal node at slot i: left = i + 1, right = i + 1 + size of
\* its left subtree; a leaf: its weight and is_leaf), and the fill returns
\* n_nodes.
C17_PreorderLayout ==
    pc = "predicted" =>
        /\ raised = "none"
        /\ make_predictor(Self).arr = predictor_nodes
        /\ make_predictor(Self).next = n_nodes
        /\ Len(predictor_nodes) = n_nodes
        /\ Len(Preorder(root)) = n_nodes
        /\ \A i \in 0 .. (n_nodes - 1) :
              predictor_nodes[i + 1] = SlotRecord(Preorder(root)[i + 1], i)

\* the array of a tree of 7 nodes with two internal nodes below the root:
\* the right subtree starts at slot 4 and its right leaf is in slot 6
C17_Witness ==
    /\ pc = "predicted"
    /\ n_nodes = 7
    /\ predictor_nodes[1].right = 4
    /\ predictor_nodes[5].right = 6
    /\ predictor_nodes[7].is_leaf

\* the node split_next would pop has no samples, or its split_info leaves
\* one side without samples
HeadHasNoSplit ==
    /\ splittable_nodes # <<>>
    /\ LET n == heappop(nodes, splittable_nodes)[1]
           sides == split_indices(splitter, nodes[n].sample_indices,
                                  nodes[n].split_info[1])
       IN sides[1] = {} \/ sides[2] = {}

SuccessfulSplits == Cardinality({n \in NodeIds : IsInternal(n)})

\* C19: once the grower is constructed, n_nodes is 1 plus twice the number
\* of splits made, is the number of nodes reachable from the root, and is
\* 2 * (len(finalized_leaves) + len(splittable_nodes)) - 1; a call changes
\* n_nodes by the 2 of its split or not at all, and a call that raises
\* leaves it alone.
C19_NodeCounter ==
    /\ [](Constructed_ =>
            /\ n_nodes = 1 + 2 * SuccessfulSplits
            /\ n_nodes = Len(Preorder(root))
            /\ n_nodes = 2 * (Len(finalized_leaves)
                              + Len(splittable_nodes)) - 1)
    /\ [][Constructed_ =>
            /\ n_nodes' \in {n_nodes, n_nodes + 2}
            /\ n_nodes' = n_nodes + 2 <=>
                   SuccessfulSplits' = SuccessfulSplits + 1
            /\ raised' # "none" => n_nodes' = n_nodes]_vars

\* two splits, the second one draining the queue at a budget of 3, then a
\* split_next that found the queue empty
C19_Witness ==
    /\ raised = "StopIteration"
    /\ max_leaf_nodes = <<3>>
    /\ n_nodes = 5
    /\ SuccessfulSplits = 2
    /\ Len(finalized_leaves) = 3
    /\ \E m \in Range(finalized_leaves) :
          nodes[m].split_info # None /\ GainOf(m)[1] > 0

\* s is a prefix of t
IsPrefix(s, t) == Len(s) <= Len(t) /\ SubSeq(t, 1, Len(s)) = s

\* C20: a node is appended to finalized_leaves at most once and is never
\* in finalized_leaves and in the queue together; a call only appends to
\* finalized_leaves, leaves every finalized leaf as it was (no children, no
\* return to the queue, same weight), and leaves the split_info of every
\* node it did not pop as it was.
C20_FinalizationIsFinal ==
    /\ [](Constructed_ =>
            /\ \A i, j \in 1 .. Len(finalized_leaves) :
                   finalized_leaves[i] = finalized_leaves[j] => i = j
            /\ Range(finalized_leaves) \cap Range(splittable_nodes) = {})
    /\ [][Constructed_ =>
            /\ IsPrefix(finalized_leaves, finalized_leaves')
            /\ \A m \in Range(finalized_leaves) :
                   /\ nodes'[m] = nodes[m]
                   /\ m \notin Range(splittable_nodes')
            /\ \A m \in NodeIds :
                   nodes'[m].left_child = nodes[m].left_child =>
                       nodes'[m].split_info = nodes[m].split_info]_vars

\* node 2 was finalized by the call that created it; a later call split
\* node 3 and finalized two more leaves after it
C20_Witness ==
    /\ pc = "ready"
    /\ raised = "none"
    /\ n_nodes = 5
    /\ Len(finalized_leaves) = 3
    /\ finalized_leaves[1] = 2
    /\ nodes[3].left_child = 4
    /\ nodes[2].weight # None

====
